---- MODULE Spec2Model ----
(***************************************************************************)
(* Financial research assistant: FinancialAgent.answer_query and the two   *)
(* tools it drives, DocumentQA.query and TavilySearch.search.              *)
(*                                                                         *)
(* Texts are TLA+ strings handled as Python handles str: lower(), the `in` *)
(* substring test, slicing, concatenation and re.findall work on the       *)
(* characters.  The generative model, the vector store and the HTTP        *)
(* provider are the environment: what they return or raise is chosen       *)
(* nondeterministically from bounded sets.                                 *)
(***************************************************************************)
EXTENDS Integers, Sequences, FiniteSets, TLC

VARIABLES
    pc,            \* "start" | "aborted" | "idle" | "routed" | "done": position of main
    document,      \* the text extracted from the file at doc_path
    table_elements, \* the <table> elements of the file at doc_path, in document order
    store,         \* names of the collections the persistent client holds
    parsed_sections, \* sections _parse_html_10k returned to this instance (<<>> if none)
    self_chunks,   \* DocumentQA.chunks of this instance
    init_error,    \* message of the exception that left FinancialAgent.__init__ ("" if none)
    query,         \* argument of the answer_query call in progress ("" when none)
    plan,          \* agent.py:80   plan = self._create_plan(query)
    tools_to_use,  \* agent.py:84   tools_to_use = self._route_tools(query)
    tool_results,  \* agent.py:88   {'results': ..., 'errors': ...} of _execute_tools
    invoked,       \* tool methods called by _execute_tools, in call order
    response,      \* the dictionary answer_query returned
    raised,        \* TRUE iff answer_query let an exception reach its caller
    collection,    \* entries of the persisted collection "apple_10k", in insertion order
    doc_env,       \* what the store and the model did during DocumentQA.query
    web_env,       \* what the HTTP provider did during TavilySearch.search
    synth_env      \* what the model did during the combining call

vars == <<pc, document, table_elements, store, parsed_sections, self_chunks, init_error, query, plan, tools_to_use,
          tool_results, invoked, response, raised, collection, doc_env, web_env, synth_env>>

-----------------------------------------------------------------------------
(* Bounds of the model *)

\* a query is assembled from at most MaxPhrases phrases of PhraseList
MaxPhrases == 2
\* a filing of Documents is cut into between 1 and MaxChunks chunks
MaxChunks == 2
\* a generated answer carries at most MaxTags [Chunk X] tags
MaxTags == 2
\* the longest text of IngestDocuments has MaxSections * section_size words
MaxSections == 2
\* the search provider returns at most MaxWebResults results
MaxWebResults == 1

-----------------------------------------------------------------------------
(* Python str operations *)

Min(a, b) == IF a < b THEN a ELSE b

\* s[:n], of a str or of a list
Slice(s, n) == SubSeq(s, 1, Min(n, Len(s)))

\* kw in s
Contains(kw, s) ==
    \E i \in 1..(Len(s) - Len(kw) + 1) : SubSeq(s, i, i + Len(kw) - 1) = kw

UpperToLower ==
    [A |-> "a", B |-> "b", C |-> "c", D |-> "d", E |-> "e", F |-> "f", G |-> "g",
     H |-> "h", I |-> "i", J |-> "j", K |-> "k", L |-> "l", M |-> "m", N |-> "n",
     O |-> "o", P |-> "p", Q |-> "q", R |-> "r", S |-> "s", T |-> "t", U |-> "u",
     V |-> "v", W |-> "w", X |-> "x", Y |-> "y", Z |-> "z"]

LowerChar(c) == IF c \in DOMAIN UpperToLower THEN UpperToLower[c] ELSE c

RECURSIVE lower(_)
\* s.lower()
lower(s) == IF s = "" THEN "" ELSE LowerChar(SubSeq(s, 1, 1)) \o lower(SubSeq(s, 2, Len(s)))

RECURSIVE Join(_, _)
\* sep.join(parts)
Join(parts, sep) ==
    IF Len(parts) = 0 THEN ""
    ELSE IF Len(parts) = 1 THEN parts[1]
    ELSE Join(SubSeq(parts, 1, Len(parts) \div 2), sep) \o sep
         \o Join(SubSeq(parts, Len(parts) \div 2 + 1, Len(parts)), sep)

\* characters str.split() and the regex class \s treat as whitespace
IsSpace(c) == c \in {" ", "\n", "\t"}

\* s.split(): the maximal runs of non-whitespace characters of s, in order
split(s) ==
    LET n == Len(s)
        space(i) == IsSpace(SubSeq(s, i, i))
        positions == [i \in 1..n |-> i]
        starts == SelectSeq(positions, LAMBDA i : ~space(i) /\ (i = 1 \/ space(i - 1)))
        ends == SelectSeq(positions, LAMBDA i : ~space(i) /\ (i = n \/ space(i + 1)))
    IN  [k \in 1..Len(starts) |-> SubSeq(s, starts[k], ends[k])]

\* xs[i:i + n] for a 0-based offset i within the list
Window(xs, i, n) == SubSeq(xs, i + 1, Min(i + n, Len(xs)))

\* range(0, n, step) as a sequence
Range(n, step) == [k \in 1..((n + step - 1) \div step) |-> (k - 1) * step]

\* any(kw in s for kw in kws)
AnyIn(kws, s) == \E kw \in kws : Contains(kw, s)

IsDigit(c) == c \in {"0", "1", "2", "3", "4", "5", "6", "7", "8", "9"}

DigitVal ==
    ("0" :> 0) @@ ("1" :> 1) @@ ("2" :> 2) @@ ("3" :> 3) @@ ("4" :> 4) @@
    ("5" :> 5) @@ ("6" :> 6) @@ ("7" :> 7) @@ ("8" :> 8) @@ ("9" :> 9)

RECURSIVE int(_)
\* int(ref) for a non-empty string of decimal digits
int(ref) ==
    IF Len(ref) = 1 THEN DigitVal[ref]
    ELSE 10 * int(SubSeq(ref, 1, Len(ref) - 1)) + DigitVal[SubSeq(ref, Len(ref), Len(ref))]

\* a text of n copies of word w separated by single spaces
Words(w, n) == Join([i \in 1..n |-> w], " ")

\* the sequences that enumerate the finite set S once each
Orders(S) ==
    {o \in [1..Cardinality(S) -> S] : \A i, j \in 1..Cardinality(S) : o[i] = o[j] => i = j}

-----------------------------------------------------------------------------
(* Exceptions: what a call returns or raises *)

NoValue == [none |-> TRUE]

Return(v) == [raised |-> FALSE, class |-> "", msg |-> "", value |-> v]

Raise(c, m) == [raised |-> TRUE, class |-> c, msg |-> m, value |-> NoValue]

\* the classes each exception class derives from (itself included)
Bases ==
    [Timeout          |-> {"Timeout", "RequestException", "Exception"},
     ConnectionError  |-> {"ConnectionError", "RequestException", "Exception"},
     HTTPError        |-> {"HTTPError", "RequestException", "Exception"},
     RequestException |-> {"RequestException", "Exception"},
     TypeError        |-> {"TypeError", "Exception"},
     ValueError       |-> {"ValueError", "Exception"},
     RuntimeError     |-> {"RuntimeError", "Exception"},
     Exception        |-> {"Exception"}]

\* except <k>: catches an exception of class c
Catches(k, c) == k \in Bases[c]

-----------------------------------------------------------------------------
(* FinancialAgent: planner and router (agent.py) *)

\* has_current keywords of _create_plan
plan_current_keywords == {"current", "today", "vs", "compare", "microsoft"}

\* has_document keywords of _create_plan
plan_document_keywords == {"risk", "10-k", "r&d", "margin"}

PlanBoth ==
    "Plan: (1) Query 10-K for historical data (2) Search web for current data (3) Synthesize both sources"

PlanWeb == "Plan: Search web for current market information"

PlanDocument == "Plan: Query Apple's 10-K filing for requested information"

_create_plan(q) ==
    LET query_lower  == lower(q)
        has_current  == AnyIn(plan_current_keywords, query_lower)
        has_document == AnyIn(plan_document_keywords, query_lower)
    IN  IF has_current /\ has_document THEN PlanBoth
        ELSE IF has_current THEN PlanWeb
        ELSE PlanDocument

current_data_keywords ==
    {"current", "today", "now", "latest stock", "market cap",
     "compare to", "versus", "vs", "microsoft", "google",
     "competitor", "industry average", "recent news"}

document_only_keywords ==
    {"risk factor", "10-k", "filing", "annual report",
     "management discussion", "md&a", "financial statement",
     "balance sheet", "income statement"}

needs_current_data(q) == AnyIn(current_data_keywords, lower(q))

mentions_document(q) == AnyIn(document_only_keywords, lower(q))

\* _route_tools with the web-only test placed first
_route_tools_web_first(q) ==
    IF needs_current_data(q) THEN <<"tavily">>
    ELSE IF mentions_document(q) THEN <<"document_qa", "tavily">>
    ELSE <<"document_qa">>

_route_tools(q) ==
    IF needs_current_data(q) /\ mentions_document(q) THEN <<"document_qa", "tavily">>
    ELSE IF needs_current_data(q) /\ ~mentions_document(q) THEN <<"tavily">>
    ELSE <<"document_qa">>

-----------------------------------------------------------------------------
(* TavilySearch (tools/tavily_search.py) *)

RateLimitStatus == 429

RateLimitMessage == "Rate limit exceeded for web search. Please try again later."

TimeoutMessage == "Web search timed out. Please try again."

_format_results(results) ==
    LET sources ==
            [i \in 1..Len(results) |->
                [source_type |-> "web",
                 text        |-> Slice(results[i].content, 200) \o "...",
                 section     |-> "None",
                 page        |-> "None",
                 url         |-> results[i].url,
                 title       |-> results[i].title]]
        top == Slice(results, 3)
        part(i) == "[Source " \o ToString(i) \o "]: " \o Slice(top[i].content, 300)
        kept == SelectSeq([i \in 1..Len(top) |-> i], LAMBDA i : top[i].content # "")
        answer_parts == [k \in 1..Len(kept) |-> part(kept[k])]
    IN  [answer  |-> IF Len(answer_parts) > 0 THEN Join(answer_parts, "\n\n")
                     ELSE "No results found.",
         sources |-> sources]

\* the try block of search: requests.post, the 429 test, raise_for_status,
\* response.json and _format_results
search_body(env) ==
    IF env.post_exc # "" THEN Raise(env.post_exc, env.msg)
    ELSE IF env.status = RateLimitStatus
        THEN Return([answer |-> RateLimitMessage, sources |-> <<>>])
    ELSE IF env.status >= 400 THEN Raise("HTTPError", env.msg)
    ELSE IF env.malformed THEN Raise("TypeError", env.msg)
    ELSE Return(_format_results(env.results))

\* search without its last clause, `except Exception`
search_except_no_generic(r) ==
    IF ~r.raised THEN r
    ELSE IF Catches("Timeout", r.class)
        THEN Return([answer |-> TimeoutMessage, sources |-> <<>>])
    ELSE IF Catches("RequestException", r.class)
        THEN Return([answer |-> "Web search error: " \o r.msg, sources |-> <<>>])
    ELSE r

\* the three except clauses of search, in order; r is the outcome of the try block
search_except(r) ==
    IF ~r.raised THEN r
    ELSE IF Catches("Timeout", r.class)
        THEN Return([answer |-> TimeoutMessage, sources |-> <<>>])
    ELSE IF Catches("RequestException", r.class)
        THEN Return([answer |-> "Web search error: " \o r.msg, sources |-> <<>>])
    ELSE IF Catches("Exception", r.class)
        THEN Return([answer |-> "Error performing web search: " \o r.msg,
                     sources |-> <<>>])
    ELSE r

\* TavilySearch.search
TavilySearch_search(env) == search_except(search_body(env))

-----------------------------------------------------------------------------
(* DocumentQA (tools/document_qa.py) *)

collection_name == "apple_10k"

\* len(all_text) < 1000 rejects the document
MinTextChars == 1000
\* len(words) < 100 rejects the document
MinWords == 100
section_size == 2000
\* a window of words becomes a section when len(chunk_text) > 500
MinSectionChars == 500
chunk_size == 500
overlap == 100
\* a window of fewer than 50 words is not kept as a chunk
MinChunkWords == 50

\* _identify_sections; all_text is soup.get_text(separator='\n', strip=True)
_identify_sections(all_text) ==
    IF Len(all_text) < MinTextChars
    THEN Raise("ValueError", "Document contains insufficient text")
    ELSE
        LET words == split(all_text)
            offsets == Range(Len(words), section_size)
            texts == [k \in 1..Len(offsets) |->
                        Join(Window(words, offsets[k], section_size), " ")]
            kept == SelectSeq(texts, LAMBDA t : Len(t) > MinSectionChars)
            sections == [k \in 1..Len(kept) |->
                            [name    |-> "Document Section " \o ToString(k),
                             content |-> kept[k],
                             page    |-> k,
                             type    |-> "text"]]
        IN  IF Len(words) < MinWords
            THEN Raise("ValueError", "Document contains too few words")
            ELSE IF Len(sections) = 0
            THEN Raise("ValueError", "Failed to create any sections from document")
            ELSE Return(sections)

\* _parse_html_10k once the file is read: the sections of the extracted text
_parse_html_10k(all_text) == _identify_sections(all_text)

\* 'page': None of a table section; the index metadata takes None and 0 alike
NoPage == 0
\* only the first 20 <table> elements are read
MaxTableElements == 20
\* a table rendered in fewer than 50 characters is skipped
MinTableChars == 50

\* the name _extract_tables gives a table from the element found before it
\* (heading is "" when find_previous finds none)
table_section_name(heading) ==
    LET text == lower(Slice(heading, 100))
    IN  IF Contains("income", text) THEN "Financial Statements - Income Statement"
        ELSE IF Contains("balance", text) THEN "Financial Statements - Balance Sheet"
        ELSE IF Contains("cash flow", text) THEN "Financial Statements - Cash Flow"
        ELSE "Financial Statements"

\* _extract_tables; each element is [heading, readable, table_text]: the text
\* of the element before the table, whether pd.read_html parses the table,
\* and df.to_string()
_extract_tables(elements) ==
    LET first == Slice(elements, MaxTableElements)
        kept == SelectSeq(first, LAMBDA table :
                    table.readable /\ Len(table.table_text) >= MinTableChars)
    IN  [k \in 1..Len(kept) |->
            [name    |-> table_section_name(kept[k].heading),
             content |-> kept[k].table_text,
             page    |-> NoPage,
             type    |-> "table"]]

\* the alternatives of group 1 of cross_ref_pattern, in the order they are tried
cross_ref_keywords == <<"see", "refer to", "as discussed in", "note", "item", "section">>

\* the characters [A-Z] matches under (?i)
Letters == DOMAIN UpperToLower \cup {UpperToLower[c] : c \in DOMAIN UpperToLower}

Digits == {"0", "1", "2", "3", "4", "5", "6", "7", "8", "9"}

RECURSIVE RunEnd(_, _, _)
\* the first position at or after i of s whose character is not in class
RunEnd(s, i, class) ==
    IF i <= Len(s) /\ SubSeq(s, i, i) \in class THEN RunEnd(s, i + 1, class) ELSE i

\* re.match(cross_ref_pattern, s, pos=i-1): group 1, group 2 and the position
\* of the last character matched, end = 0 when the pattern does not match at i
MatchAt(s, i) ==
    LET kws == SelectSeq(cross_ref_keywords,
                    LAMBDA kw : /\ i + Len(kw) - 1 <= Len(s)
                                /\ LowerChar(SubSeq(s, i, i)) = SubSeq(kw, 1, 1)
                                /\ lower(SubSeq(s, i, i + Len(kw) - 1)) = kw)
        none == [end |-> 0, type |-> "", target |-> ""]
    IN  IF LowerChar(SubSeq(s, i, i)) \notin {"s", "r", "a", "n", "i"} THEN none
        ELSE IF Len(kws) = 0 THEN none
        ELSE
            LET j == i + Len(kws[1])
                t == RunEnd(s, j, {" ", "\n", "\t"})
                d == RunEnd(s, t, Digits)
                l == RunEnd(s, t, Letters)
            IN  IF t = j THEN none
                ELSE IF d > t
                    THEN [end |-> d - 1, type |-> SubSeq(s, i, j - 1),
                          target |-> SubSeq(s, t, d - 1)]
                ELSE IF l > t
                    THEN [end |-> l - 1, type |-> SubSeq(s, i, j - 1),
                          target |-> SubSeq(s, t, l - 1)]
                ELSE none

RECURSIVE NonOverlapping(_, _, _, _)
\* the matches starting at starts[k..], leftmost first, none starting before pos
NonOverlapping(s, starts, k, pos) ==
    IF k > Len(starts) THEN <<>>
    ELSE IF starts[k] < pos THEN NonOverlapping(s, starts, k + 1, pos)
    ELSE <<[type      |-> MatchAt(s, starts[k]).type,
            target    |-> MatchAt(s, starts[k]).target,
            full_text |-> SubSeq(s, starts[k], MatchAt(s, starts[k]).end)]>>
         \o NonOverlapping(s, starts, k + 1, MatchAt(s, starts[k]).end + 1)

\* cross_refs of _chunk_document: one record per re.finditer match in content
cross_refs(content) ==
    NonOverlapping(content,
                   SelectSeq([i \in 1..Len(content) |-> i],
                             LAMBDA i : MatchAt(content, i).end > 0),
                   1, 1)

\* section_chunks that keeps the windows of fewer than MinChunkWords words
section_chunks_keep_short(section, base) ==
    LET words == split(section.content)
        offsets == Range(Len(words), chunk_size - overlap)
        windows == [k \in 1..Len(offsets) |-> Window(words, offsets[k], chunk_size)]
    IN  [k \in 1..Len(windows) |->
            [text             |-> Join(windows[k], " "),
             section          |-> section.name,
             page             |-> section.page,
             type             |-> section.type,
             chunk_id         |-> base + k - 1,
             cross_references |-> <<>>]]

\* section_chunks whose windows start chunk_size + overlap words apart
section_chunks_gapped(section, base) ==
    LET words == split(section.content)
        offsets == Range(Len(words), chunk_size + overlap)
        windows == [k \in 1..Len(offsets) |-> Window(words, offsets[k], chunk_size)]
        kept == SelectSeq(windows, LAMBDA chunk_words : Len(chunk_words) >= MinChunkWords)
    IN  [k \in 1..Len(kept) |->
            [text             |-> Join(kept[k], " "),
             section          |-> section.name,
             page             |-> section.page,
             type             |-> section.type,
             chunk_id         |-> base + k - 1,
             cross_references |-> <<>>]]

\* section_chunks that numbers the chunks of each section from 0
section_chunks_local_ids(section, base) ==
    LET words == split(section.content)
        offsets == Range(Len(words), chunk_size - overlap)
        windows == [k \in 1..Len(offsets) |-> Window(words, offsets[k], chunk_size)]
        kept == SelectSeq(windows, LAMBDA chunk_words : Len(chunk_words) >= MinChunkWords)
    IN  [k \in 1..Len(kept) |->
            [text             |-> Join(kept[k], " "),
             section          |-> section.name,
             page             |-> section.page,
             type             |-> section.type,
             chunk_id         |-> k - 1,
             cross_references |-> <<>>]]

\* the chunks one section adds to a list that already holds `base` chunks
section_chunks(section, base) ==
    IF section.type = "table"
    THEN <<[text             |-> section.content,
            section          |-> section.name,
            page             |-> section.page,
            type             |-> "table",
            chunk_id         |-> base,
            cross_references |-> cross_refs(section.content)]>>
    ELSE
        LET words == split(section.content)
            offsets == Range(Len(words), chunk_size - overlap)
            windows == [k \in 1..Len(offsets) |-> Window(words, offsets[k], chunk_size)]
            kept == SelectSeq(windows, LAMBDA chunk_words : Len(chunk_words) >= MinChunkWords)
            refs == cross_refs(section.content)
        IN  [k \in 1..Len(kept) |->
                [text             |-> Join(kept[k], " "),
                 section          |-> section.name,
                 page             |-> section.page,
                 type             |-> "text",
                 chunk_id         |-> base + k - 1,
                 cross_references |->
                    SelectSeq(refs, LAMBDA ref : Contains(ref.full_text, Join(kept[k], " ")))]]

RECURSIVE chunk_sections(_, _)
\* chunks once the for loop of _chunk_document has handled sections[1..n]
chunk_sections(sections, n) ==
    IF n = 0 THEN <<>>
    ELSE chunk_sections(sections, n - 1)
         \o section_chunks(sections[n], Len(chunk_sections(sections, n - 1)))

_chunk_document(sections) == chunk_sections(sections, Len(sections))

top_k == 5

\* ids and metadatas handed to collection.add by _process_document
IndexEntries(chunks) ==
    [i \in 1..Len(chunks) |->
        [id       |-> "chunk_" \o ToString(i - 1),
         document |-> chunks[i].text,
         metadata |-> [section  |-> chunks[i].section,
                       page     |-> IF chunks[i].page # 0 THEN ToString(chunks[i].page)
                                    ELSE "unknown",
                       type     |-> chunks[i].type,
                       chunk_id |-> ToString(i - 1)]]]

\* what _embed_texts does during _process_document
EmbedEnvs == {[embed_error |-> ""], [embed_error |-> "embedding model unavailable"]}

\* a DocumentQA call that returned, leaving the store and the instance as in st
Completed(st) ==
    [raised |-> FALSE, class |-> "", msg |-> "", store |-> st.store,
     collection |-> st.collection, chunks |-> st.chunks, sections |-> st.sections]

\* a DocumentQA call that raised, leaving the store and the instance as in st
Aborted(st, c, m) ==
    [raised |-> TRUE, class |-> c, msg |-> m, store |-> st.store,
     collection |-> st.collection, chunks |-> st.chunks, sections |-> st.sections]

\* _process_document from the length test on self.chunks to collection.add
store_chunks(st, new_chunks, eenv) ==
    IF Len(new_chunks) = 0
    THEN Aborted([st EXCEPT !.chunks = new_chunks], "ValueError",
                 "No chunks created from document. Check if file is valid 10-K HTML.")
    ELSE IF eenv.embed_error # ""
    THEN Aborted([st EXCEPT !.chunks = new_chunks, !.store = @ \cup {collection_name}],
                 "RuntimeError", eenv.embed_error)
    ELSE Completed([st EXCEPT !.chunks = new_chunks,
                              !.store = @ \cup {collection_name},
                              !.collection = @ \o IndexEntries(new_chunks)])

\* chunk_parsed that creates the collection before it looks at the sections
chunk_parsed_create_first(st, parsed, eenv) ==
    IF parsed.raised
    THEN Aborted([st EXCEPT !.store = @ \cup {collection_name}], parsed.class, parsed.msg)
    ELSE store_chunks([st EXCEPT !.sections = parsed.value],
                      _chunk_document(parsed.value), eenv)

\* _process_document after _parse_html_10k; parsed is the outcome of that call
chunk_parsed(st, parsed, eenv) ==
    IF parsed.raised THEN Aborted(st, parsed.class, parsed.msg)
    ELSE store_chunks([st EXCEPT !.sections = parsed.value],
                      _chunk_document(parsed.value), eenv)

_process_document(st, all_text, eenv) ==
    chunk_parsed(st, _parse_html_10k(all_text), eenv)

\* initialize that processes the document whatever the index holds
initialize_always(st, all_text, eenv) ==
    _process_document([st EXCEPT !.collection = <<>>], all_text, eenv)

\* DocumentQA.initialize
initialize(st, all_text, eenv) ==
    IF collection_name \in st.store /\ Len(st.collection) > 0
    THEN Completed(st)
    ELSE _process_document(st, all_text, eenv)

\* FinancialAgent.__init__: a new DocumentQA opened on the persisted store,
\* then doc_qa.initialize()
FinancialAgent_init(persisted_store, persisted_collection, all_text, eenv) ==
    initialize([store |-> persisted_store, collection |-> persisted_collection,
                chunks |-> <<>>, sections |-> <<>>],
               all_text, eenv)

RECURSIVE DigitsEnd(_, _)
\* the first position at or after i of s that holds no digit
DigitsEnd(s, i) ==
    IF i <= Len(s) /\ IsDigit(SubSeq(s, i, i)) THEN DigitsEnd(s, i + 1) ELSE i

RECURSIVE FindAllFrom(_, _)
\* re.findall(r'\[Chunk (\d+)\]', s), scanning from position i
FindAllFrom(s, i) ==
    IF i + 8 > Len(s) THEN <<>>
    ELSE IF SubSeq(s, i, i + 6) = "[Chunk "
        THEN LET j == DigitsEnd(s, i + 7)
             IN  IF j > i + 7 /\ j <= Len(s) /\ SubSeq(s, j, j) = "]"
                 THEN <<SubSeq(s, i + 7, j - 1)>> \o FindAllFrom(s, j + 1)
                 ELSE FindAllFrom(s, i + 1)
    ELSE FindAllFrom(s, i + 1)

chunk_refs(answer) == FindAllFrom(answer, 1)

\* set(chunk_refs)
RefSet(answer) == {chunk_refs(answer)[i] : i \in 1..Len(chunk_refs(answer))}

\* _extract_citations that cites the last chunk for a tag beyond the list
_extract_citations_clamped(answer, chunks, order) ==
    [k \in 1..Len(order) |->
        [source_type      |-> "document",
         text             |-> Slice(chunks[Min(int(order[k]), Len(chunks) - 1) + 1].text, 200),
         section          |-> chunks[Min(int(order[k]), Len(chunks) - 1) + 1].section,
         page             |-> chunks[Min(int(order[k]), Len(chunks) - 1) + 1].page,
         cross_references |-> <<>>,
         url              |-> "None",
         title            |-> "None"]]

\* _extract_citations with the range test written chunk_idx < len(chunks) - 1
_extract_citations_off_by_one(answer, chunks, order) ==
    LET valid == SelectSeq(order, LAMBDA ref : int(ref) < Len(chunks) - 1)
    IN  [k \in 1..Len(valid) |->
            [source_type      |-> "document",
             text             |-> Slice(chunks[int(valid[k]) + 1].text, 200),
             section          |-> chunks[int(valid[k]) + 1].section,
             page             |-> chunks[int(valid[k]) + 1].page,
             cross_references |-> <<>>,
             url              |-> "None",
             title            |-> "None"]]

\* _extract_citations; `order` is the order in which the for loop meets the
\* elements of set(chunk_refs), which Python does not fix
_extract_citations(answer, chunks, order) ==
    LET valid == SelectSeq(order, LAMBDA ref : int(ref) < Len(chunks))
        cite(ref) ==
            LET chunk == chunks[int(ref) + 1]
            IN  [source_type      |-> "document",
                 text             |-> IF Len(chunk.text) > 200
                                      THEN Slice(chunk.text, 200) \o "..."
                                      ELSE chunk.text,
                 section          |-> chunk.section,
                 page             |-> chunk.page,
                 cross_references |-> IF "cross_references" \in DOMAIN chunk
                                      THEN chunk.cross_references ELSE <<>>,
                 url              |-> "None",
                 title            |-> "None"]
    IN  [k \in 1..Len(valid) |-> cite(valid[k])]

\* the try block of query: embed the question, collection.query, build the
\* chunks, _generate_answer, _extract_citations
query_body(coll, env) ==
    IF env.retrieval_error # "" THEN Raise("RuntimeError", env.retrieval_error)
    ELSE
        LET documents == [i \in 1..Len(env.ranking) |-> coll[env.ranking[i]].document]
            metadatas == [i \in 1..Len(env.ranking) |-> coll[env.ranking[i]].metadata]
            chunks ==
                [i \in 1..Len(documents) |->
                    [text     |-> documents[i],
                     section  |-> metadatas[i].section,
                     page     |-> metadatas[i].page,
                     type     |-> metadatas[i].type,
                     chunk_id |-> i - 1]]
        IN  IF Len(documents) = 0
            THEN Return([answer    |-> "No relevant information found in the 10-K filing.",
                         citations |-> <<>>])
            ELSE IF env.gen_error # "" THEN Raise("RuntimeError", env.gen_error)
            ELSE Return([answer    |-> env.text,
                         citations |-> _extract_citations(env.text, chunks, env.order)])

\* query letting the exception of its try block through
query_except_reraise(r) == r

\* the `except Exception` clause of query; r is the outcome of the try block
query_except(r) ==
    IF ~r.raised THEN r
    ELSE IF Catches("Exception", r.class)
        THEN Return([answer    |-> "Error querying document: " \o r.msg,
                     citations |-> <<>>])
    ELSE r

\* DocumentQA.query
DocumentQA_query(coll, env) == query_except(query_body(coll, env))

-----------------------------------------------------------------------------
(* FinancialAgent: execution and synthesis (agent.py) *)

\* results['document_qa'] = self.doc_qa.query(query) / results['tavily'] = ...
tool_call(tool_name, coll, denv, wenv) ==
    IF tool_name = "document_qa" THEN DocumentQA_query(coll, denv)
    ELSE TavilySearch_search(wenv)

\* the try/except around one tool call in the for loop of _execute_tools;
\* r is the outcome of the call
record_outcome(acc, tool_name, r) ==
    IF tool_name \notin {"document_qa", "tavily"} THEN acc
    ELSE IF r.raised /\ Catches("Exception", r.class)
        THEN [acc EXCEPT !.errors = Append(@, tool_name \o " failed: " \o r.msg),
                         !.invoked = Append(@, tool_name)]
    ELSE [acc EXCEPT !.results = (tool_name :> r.value) @@ @,
                     !.invoked = Append(@, tool_name)]

RECURSIVE execute_loop(_, _, _, _, _)
\* results, errors and the tools called once the loop has handled tools[1..n]
execute_loop(tools, n, coll, denv, wenv) ==
    IF n = 0 THEN [results |-> <<>>, errors |-> <<>>, invoked |-> <<>>]
    ELSE record_outcome(execute_loop(tools, n - 1, coll, denv, wenv), tools[n],
                        tool_call(tools[n], coll, denv, wenv))

\* the all-tools-failed test that ends _execute_tools
all_failed_check(end) ==
    IF DOMAIN end.results = {} /\ Len(end.errors) > 0
    THEN [Raise("Exception", "All tools failed: " \o Join(end.errors, "; "))
            EXCEPT !.value = [results |-> <<>>, errors |-> <<>>, invoked |-> end.invoked]]
    ELSE Return(end)

\* _execute_tools: the for loop over the selected tools, then the test
_execute_tools(tools, coll, denv, wenv) ==
    all_failed_check(execute_loop(tools, Len(tools), coll, denv, wenv))

\* all_answers of _synthesize_answer: the labelled tool answers, document first
all_answers(results) ==
    (IF "document_qa" \in DOMAIN results
     THEN <<"From 10-K Document:\n" \o results["document_qa"].answer>> ELSE <<>>)
    \o (IF "tavily" \in DOMAIN results
        THEN <<"From Web Search:\n" \o results["tavily"].answer>> ELSE <<>>)

\* all_citations with the web sources collected first
all_citations_web_first(results) ==
    (IF "tavily" \in DOMAIN results THEN results["tavily"].sources ELSE <<>>)
    \o (IF "document_qa" \in DOMAIN results THEN results["document_qa"].citations ELSE <<>>)

\* all_citations of _synthesize_answer
all_citations(results) ==
    (IF "document_qa" \in DOMAIN results THEN results["document_qa"].citations ELSE <<>>)
    \o (IF "tavily" \in DOMAIN results THEN results["tavily"].sources ELSE <<>>)

\* tools_used of _synthesize_answer
tools_used(results) ==
    (IF "document_qa" \in DOMAIN results THEN <<"Document QA">> ELSE <<>>)
    \o (IF "tavily" \in DOMAIN results THEN <<"Tavily Search">> ELSE <<>>)

\* final_answer whose fallback joins the tool answers without the divider
final_answer_no_divider(answers, senv) ==
    IF Len(answers) > 1
    THEN IF senv.error = "" THEN senv.text
         ELSE Join(answers, "\n\n")
    ELSE IF Len(answers) > 0 THEN answers[1]
    ELSE "No answer generated."

\* final_answer of _synthesize_answer; senv is what the combining
\* generate_content call does
final_answer(answers, senv) ==
    IF Len(answers) > 1
    THEN IF senv.error = "" THEN senv.text
         ELSE Join(answers, "\n\n---\n\n")
    ELSE IF Len(answers) > 0 THEN answers[1]
    ELSE "No answer generated."

_synthesize_answer(q, tr, senv) ==
    [answer     |-> final_answer(all_answers(tr.results), senv),
     citations  |-> all_citations(tr.results),
     tools_used |-> tools_used(tr.results),
     errors     |-> tr.errors,
     plan       |-> _create_plan(q)]

\* the except clause of answer_query
ErrorResponse(msg) ==
    [answer     |-> "Error processing query: " \o msg,
     citations  |-> <<>>,
     tools_used |-> <<>>,
     errors     |-> <<msg>>,
     plan       |-> "Error occurred"]

\* the synthesis step and the except clause of answer_query; ex is the outcome
\* of the _execute_tools call
answer_query_finish(q, ex, senv) ==
    IF ~ex.raised
    THEN [raised       |-> FALSE,
          response     |-> _synthesize_answer(q, ex.value, senv),
          tool_results |-> [results |-> ex.value.results, errors |-> ex.value.errors],
          invoked      |-> ex.value.invoked]
    ELSE [raised       |-> ~Catches("Exception", ex.class),
          response     |-> ErrorResponse(ex.msg),
          tool_results |-> [results |-> <<>>, errors |-> <<>>],
          invoked      |-> ex.value.invoked]

\* answer_query from the _execute_tools call to its return, for a query already
\* planned and routed: [raised, response, tool_results, invoked]
answer_query(q, tools, coll, denv, wenv, senv) ==
    answer_query_finish(q, _execute_tools(tools, coll, denv, wenv), senv)

-----------------------------------------------------------------------------
(* Inputs and environment *)

PhraseList ==
    <<"What are the top risk factors",
      "How does gross margin",
      " and R&D spend percentage?",
      " compare to Microsoft's current margin?",
      " vs Google today",
      " in their 10-K">>

RECURSIVE Assemble(_, _)
\* the phrases of PhraseList whose position is in S, from position i on
Assemble(S, i) ==
    IF i > Len(PhraseList) THEN ""
    ELSE (IF i \in S THEN PhraseList[i] ELSE "") \o Assemble(S, i + 1)

\* the non-empty queries the caller passes (main.py skips blank input)
Queries ==
    {Assemble(S, 1) : S \in {T \in SUBSET (1..Len(PhraseList)) :
                                Cardinality(T) >= 1 /\ Cardinality(T) <= MaxPhrases}}

\* n numbered words separated by sep
Numbered(n, sep) == Join([i \in 1..n |-> "w" \o ToString(i)], sep)

\* a filing whose text opens with a cross-reference and is cut into k chunks
Filing(k) == "See Note 5 for net sales.\n" \o Numbered(400 * (k - 1) + 434, " ")

\* 499 characters: below the character threshold
TooShort == Words("risk", 100)

\* 1259 characters in 60 words: below the word threshold
FewWords == Words("internationalization", 60)

\* 1191 characters in 120 words, 239 characters once joined by single spaces
Sparse == Join([i \in 1..120 |-> "a"], "         ")

\* texts the file at doc_path may hold
Documents == {TooShort, FewWords, Sparse} \cup {Filing(k) : k \in 1..MaxChunks}

\* numbers of words left for the last window of section_size words
TailWords == {10, 49, 50, 99, 100, 120, 449, 450, 500, 900, section_size}

\* whitespace found between two words of the extracted text
Separators == {" ", "\n   "}

\* a full window of numbered words, then 40 words in 839 characters: a last
\* section of fewer than MinChunkWords words
ShortTail == Numbered(section_size, " ") \o " " \o Words("internationalization", 40)

\* the texts ingestion is applied to on its own: Documents, numbered words
\* that fill up to MaxSections windows, and ShortTail
IngestDocuments ==
    Documents
    \cup {ShortTail}
    \cup {Numbered(section_size * (k - 1) + r, sep) :
            k \in 1..MaxSections, r \in TailWords, sep \in Separators}

\* <table> elements a filing may hold: the text of the element before the
\* table, whether pd.read_html parses it, and df.to_string()
IncomeTable ==
    [heading    |-> "CONSOLIDATED STATEMENTS OF INCOME",
     readable   |-> TRUE,
     table_text |-> "              2024    2023\nNet sales   391035  383285\nNet income   93736   96995"]

BalanceTable ==
    [heading    |-> "Consolidated Balance Sheets",
     readable   |-> TRUE,
     table_text |-> "                     2024    2023\nTotal assets       364980  352583\nTotal liabilities  308030  290437"]

CashFlowTable ==
    [heading    |-> "Consolidated Statements of Cash Flows",
     readable   |-> TRUE,
     table_text |-> "                        2024    2023\nCash from operations  118254  110543"]

\* a table with no element before it
SegmentTable ==
    [heading    |-> "",
     readable   |-> TRUE,
     table_text |-> "            2024    2023\nAmericas  167045  162560\nEurope    101328   94294"]

\* a layout table rendered in fewer than MinTableChars characters
SmallTable == [heading |-> "Income taxes", readable |-> TRUE, table_text |-> "   0\n0  x"]

\* a table pd.read_html cannot parse
BrokenTable == [heading |-> "Balance", readable |-> FALSE, table_text |-> ""]

TableElements ==
    {IncomeTable, BalanceTable, CashFlowTable, SegmentTable, SmallTable, BrokenTable}

\* the tables of a filing, in document order
TableLists ==
    {<<t>> : t \in TableElements}
    \cup {<<IncomeTable, BalanceTable>>, <<SmallTable, CashFlowTable>>,
          <<BalanceTable, BalanceTable>>}

\* get_text of the filing Filing(1) followed by the tables of elements, each
\* after the element that precedes it
TableFilingText(elements) ==
    Join(<<Filing(1)>> \o [k \in 1..Len(elements) |->
            elements[k].heading \o "\n" \o Join(split(elements[k].table_text), "\n")],
         "\n")

\* a file without <table> elements whose extracted text is text
Plain(text) == [text |-> text, tables |-> <<>>]

\* the files the agent is run on
Files == {Plain(text) : text \in Documents}

\* the files ingestion is applied to on its own
IngestFiles ==
    {Plain(text) : text \in IngestDocuments}
    \cup {[text |-> TableFilingText(elements), tables |-> elements] : elements \in TableLists}

\* collection.query(n_results=k): the ids of the nearest entries, best first
Rankings(coll, k) ==
    LET n == Min(k, Len(coll))
    IN  {r \in [1..n -> 1..Len(coll)] : \A i, j \in 1..n : r[i] = r[j] => i = j}

\* the indices the model may write in a tag: "0" and "00" both spell index 0
TagPool == {"0", "1", "00"}

TagText(tags) == Join([i \in 1..Len(tags) |-> " [Chunk " \o tags[i] \o "]"], "")

\* texts the generative model may return for the document question
LLMAnswers ==
    {"Gross margin was 44.1%." \o TagText(tags) :
        tags \in UNION {[1..n -> TagPool] : n \in 0..MaxTags}}

NoDocEnv ==
    [retrieval_error |-> "", ranking |-> <<>>, gen_error |-> "", text |-> "", order |-> <<>>]

DocEnvs(coll) ==
    {[NoDocEnv EXCEPT !.retrieval_error = "vector store unavailable"]}
    \cup {[NoDocEnv EXCEPT !.ranking = r, !.gen_error = "model unavailable"] :
            r \in Rankings(coll, top_k)}
    \cup UNION {{[NoDocEnv EXCEPT !.ranking = r, !.text = t, !.order = o] :
                    r \in Rankings(coll, top_k), o \in Orders(RefSet(t))} :
                t \in LLMAnswers}

WebResultPool ==
    {[content |-> Words("msft", 50), url |-> "https://example.com/msft",
      title |-> "Microsoft margins"],
     [content |-> "", url |-> "https://example.com/blank", title |-> "Blank"]}

NoWebEnv ==
    [post_exc |-> "", status |-> 200, malformed |-> FALSE, msg |-> "", results |-> <<>>]

WebFailures ==
    {[NoWebEnv EXCEPT !.post_exc = "Timeout", !.msg = "read timed out"],
     [NoWebEnv EXCEPT !.post_exc = "ConnectionError", !.msg = "connection refused"],
     [NoWebEnv EXCEPT !.status = RateLimitStatus],
     [NoWebEnv EXCEPT !.status = 500, !.msg = "500 Server Error"],
     [NoWebEnv EXCEPT !.malformed = TRUE, !.msg = "payload is not a mapping"]}

WebEnvs ==
    WebFailures
    \cup {[NoWebEnv EXCEPT !.results = rs] :
            rs \in UNION {[1..n -> WebResultPool] : n \in 0..MaxWebResults}}

NoSynthEnv == [error |-> "", text |-> ""]

SynthEnvs ==
    {[error |-> "", text |-> "Apple 44.1% against Microsoft 69%."],
     [error |-> "model unavailable", text |-> ""]}

-----------------------------------------------------------------------------
(* State machine *)

NoResponse ==
    [answer |-> "", citations |-> <<>>, tools_used |-> <<>>, errors |-> <<>>, plan |-> ""]

NoToolResults == [results |-> <<>>, errors |-> <<>>]

\* main has not built the agent yet and the store holds no collection; the
\* file is one of files
Start(files) ==
    /\ pc = "start"
    /\ \E file \in files :
        /\ document = file.text
        /\ table_elements = file.tables
    /\ store = {}
    /\ parsed_sections = <<>>
    /\ self_chunks = <<>>
    /\ init_error = ""
    /\ query = ""
    /\ plan = ""
    /\ tools_to_use = <<>>
    /\ tool_results = NoToolResults
    /\ invoked = <<>>
    /\ response = NoResponse
    /\ raised = FALSE
    /\ collection = <<>>
    /\ doc_env = NoDocEnv
    /\ web_env = NoWebEnv
    /\ synth_env = NoSynthEnv

Init == Start(Files)

\* main is given what FinancialAgent(document_path) returned or raised
Constructed(out) ==
    /\ store' = out.store
    /\ collection' = out.collection
    /\ self_chunks' = out.chunks
    /\ parsed_sections' = out.sections
    /\ init_error' = (IF out.raised THEN out.msg ELSE "")
    /\ pc' = (IF out.raised THEN "aborted" ELSE "idle")

\* main builds the agent (main.py:103-109, agent.py:17-44)
Construct(eenv) ==
    /\ pc = "start"
    /\ Constructed(FinancialAgent_init(store, collection, document, eenv))
    /\ UNCHANGED <<document, table_elements, query, plan, tools_to_use, tool_results, invoked, response,
                   raised, doc_env, web_env, synth_env>>

\* the process ends, on 'exit' or after a failed construction; a later run
\* starts on the same persisted store
Exit ==
    /\ pc \in {"idle", "aborted"}
    /\ pc' = "start"
    /\ parsed_sections' = <<>>
    /\ self_chunks' = <<>>
    /\ init_error' = ""
    /\ UNCHANGED <<document, table_elements, store, collection, query, plan, tools_to_use, tool_results,
                   invoked, response, raised, doc_env, web_env, synth_env>>

\* answer_query is called: plan and route (agent.py:76-85)
Receive(q) ==
    /\ pc = "idle"
    /\ pc' = "routed"
    /\ query' = q
    /\ plan' = _create_plan(q)
    /\ tools_to_use' = _route_tools(q)
    /\ UNCHANGED <<tool_results, invoked, response, raised, collection,
                   doc_env, web_env, synth_env>>
    /\ UNCHANGED <<document, table_elements, store, parsed_sections, self_chunks, init_error>>

\* the caller receives what answer_query returned
Returned(out) ==
    /\ response' = out.response
    /\ raised' = out.raised
    /\ tool_results' = out.tool_results
    /\ invoked' = out.invoked

\* Execute in which the document tool empties the collection it queried
Execute_clearing(denv, wenv, senv) ==
    /\ pc = "routed"
    /\ Returned(answer_query(query, tools_to_use, collection, denv, wenv, senv))
    /\ doc_env' = denv
    /\ web_env' = wenv
    /\ synth_env' = senv
    /\ pc' = "done"
    /\ query' = ""
    /\ collection' = (IF "document_qa" \in {tools_to_use[i] : i \in 1..Len(tools_to_use)}
                      THEN <<>> ELSE collection)
    /\ UNCHANGED <<plan, tools_to_use>>
    /\ UNCHANGED <<document, table_elements, store, parsed_sections, self_chunks, init_error>>

\* answer_query executes the tools, synthesizes and returns (agent.py:87-103)
Execute(denv, wenv, senv) ==
    /\ pc = "routed"
    /\ Returned(answer_query(query, tools_to_use, collection, denv, wenv, senv))
    /\ doc_env' = denv
    /\ web_env' = wenv
    /\ synth_env' = senv
    /\ pc' = "done"
    /\ query' = ""
    /\ UNCHANGED <<plan, tools_to_use, collection>>
    /\ UNCHANGED <<document, table_elements, store, parsed_sections, self_chunks, init_error>>

\* the caller shows the response and prompts again (main.py main loop)
Display ==
    /\ pc = "done"
    /\ pc' = "idle"
    /\ plan' = ""
    /\ tools_to_use' = <<>>
    /\ tool_results' = NoToolResults
    /\ invoked' = <<>>
    /\ response' = NoResponse
    /\ raised' = FALSE
    /\ doc_env' = NoDocEnv
    /\ web_env' = NoWebEnv
    /\ synth_env' = NoSynthEnv
    /\ UNCHANGED <<query, collection>>
    /\ UNCHANGED <<document, table_elements, store, parsed_sections, self_chunks, init_error>>

Next ==
    \/ \E eenv \in EmbedEnvs : Construct(eenv)
    \/ Exit
    \/ \E q \in Queries : Receive(q)
    \/ /\ pc = "routed"
       /\ \E denv \in (IF "document_qa" \in {tools_to_use[i] : i \in 1..Len(tools_to_use)}
                       THEN DocEnvs(collection) ELSE {NoDocEnv}),
             wenv \in (IF "tavily" \in {tools_to_use[i] : i \in 1..Len(tools_to_use)}
                       THEN WebEnvs ELSE {NoWebEnv}),
             senv \in (IF Len(tools_to_use) > 1 THEN SynthEnvs ELSE {NoSynthEnv}) :
               Execute(denv, wenv, senv)
    \/ Display

Spec == Init /\ [][Next]_vars

\* construction and restarts alone, over the larger family of texts
InitIngest == Start(IngestFiles)

NextIngest ==
    \/ \E eenv \in EmbedEnvs : Construct(eenv)
    \/ Exit

SpecIngest == InitIngest /\ [][NextIngest]_vars

-----------------------------------------------------------------------------
(* Vocabulary of the properties *)

Selected(t) == \E i \in 1..Len(tools_to_use) : tools_to_use[i] = t

Called(t) == \E i \in 1..Len(invoked) : invoked[i] = t

Hybrid == tools_to_use = <<"document_qa", "tavily">>

\* the document tool was called and its retrieval or its generation call failed
DocFailed ==
    Called("document_qa") /\ (doc_env.retrieval_error # "" \/ doc_env.gen_error # "")

\* the web tool was called and the provider rate-limited, timed out or failed
WebFailed ==
    Called("tavily")
    /\ (web_env.post_exc # "" \/ web_env.status >= 400 \/ web_env.malformed)

FailureKind(env) ==
    IF env.post_exc = "Timeout" THEN "timeout"
    ELSE IF env.post_exc # "" THEN "transport"
    ELSE IF env.status = RateLimitStatus THEN "rate_limit"
    ELSE IF env.status >= 400 THEN "transport"
    ELSE IF env.malformed THEN "other"
    ELSE "none"

HasCitation(type) ==
    \E i \in 1..Len(response.citations) : response.citations[i].source_type = type

HybridScenarioQuery == "How does gross margin compare to Microsoft's current margin?"

DocumentScenarioQuery == "What are the top risk factors and R&D spend percentage?"

-----------------------------------------------------------------------------
(* Properties *)

\* C1: when every selected tool fails, answer_query does not raise and returns
\* a Response with no citations, no tools_used, a non-empty errors list and an
\* answer that contains the error text.
C1_AllToolsFailedGivesErrorResponse ==
    (pc = "done"
     /\ (Selected("document_qa") => DocFailed)
     /\ (Selected("tavily") => WebFailed))
    => /\ ~raised
       /\ response.citations = <<>>
       /\ response.tools_used = <<>>
       /\ Len(response.errors) > 0
       /\ \E i \in 1..Len(response.errors) :
            Contains(response.errors[i], response.answer)

\* C2: the router returns a non-empty tool list fixed by the decision table:
\* both tools for a current keyword with a document keyword, the web tool alone
\* for a current keyword without a document keyword, the document tool alone
\* otherwise.
C2_RouteDecisionTable ==
    pc = "routed" =>
        /\ Len(tools_to_use) > 0
        /\ (needs_current_data(query) /\ mentions_document(query)
                => tools_to_use = <<"document_qa", "tavily">>)
        /\ (needs_current_data(query) /\ ~mentions_document(query)
                => tools_to_use = <<"tavily">>)
        /\ (~needs_current_data(query) => tools_to_use = <<"document_qa">>)

C2_Witness ==
    /\ pc = "routed"
    /\ needs_current_data(query)
    /\ mentions_document(query)
    /\ tools_to_use = <<"document_qa", "tavily">>

\* C3: for the hybrid scenario query the router returns the document tool and
\* the web tool.
C3_HybridScenarioRoutesBoth ==
    (pc = "routed" /\ query = HybridScenarioQuery)
    => tools_to_use = <<"document_qa", "tavily">>

\* C4: a query routed to the document tool only never invokes the web adapter,
\* its response lists exactly "Document QA" and carries no web citation; the
\* document scenario query is routed that way.
C4_DocumentOnlyNeverUsesWeb ==
    /\ (pc = "routed" /\ query = DocumentScenarioQuery)
            => tools_to_use = <<"document_qa">>
    /\ (pc = "done" /\ tools_to_use = <<"document_qa">>)
            => /\ ~Called("tavily")
               /\ response.tools_used = <<"Document QA">>
               /\ ~HasCitation("web")

C4_Witness ==
    /\ pc = "done"
    /\ tools_to_use = <<"document_qa">>
    /\ invoked = <<"document_qa">>
    /\ HasCitation("document")

\* C5: when both tools produced a result, tools_used is Document QA then Tavily
\* Search and the citations are the document citations followed by the web
\* snippets: no web citation precedes a document citation.
C5_DocumentCitationsFirst ==
    (pc = "done" /\ DOMAIN tool_results.results = {"document_qa", "tavily"})
    => /\ response.tools_used = <<"Document QA", "Tavily Search">>
       /\ response.citations = tool_results.results["document_qa"].citations
                               \o tool_results.results["tavily"].sources
       /\ \A i, j \in 1..Len(response.citations) :
            (response.citations[i].source_type = "web"
             /\ response.citations[j].source_type = "document") => j < i

C5_Witness ==
    /\ pc = "done"
    /\ DOMAIN tool_results.results = {"document_qa", "tavily"}
    /\ HasCitation("document")
    /\ HasCitation("web")

C7_FailedToolIsWarning ==
    (pc = "done" /\ Hybrid /\ DocFailed # WebFailed)
    => /\ Len(response.errors) > 0
       /\ (IF DocFailed THEN "Document QA" ELSE "Tavily Search")
            \notin {response.tools_used[i] : i \in 1..Len(response.tools_used)}
       /\ (IF DocFailed THEN "document_qa" ELSE "tavily")
            \notin DOMAIN tool_results.results

\* C8: when the provider answers 429 on a hybrid query, the adapter returns the
\* rate-limit message with no snippets, and answer_query returns, without
\* raising, a Response built from the document tool's output alone that carries
\* a warning in errors.
C8_RateLimitLeavesDocumentAnswer ==
    (pc = "done" /\ Hybrid /\ FailureKind(web_env) = "rate_limit" /\ ~DocFailed)
    => /\ ~raised
       /\ TavilySearch_search(web_env).value
            = [answer |-> RateLimitMessage, sources |-> <<>>]
       /\ response.tools_used = <<"Document QA">>
       /\ response.answer = "From 10-K Document:\n" \o doc_env.text
       /\ Len(response.errors) > 0

\* C9: when both tools produced a result and the combining call fails, the
\* query does not fail: the answer is the labelled document answer, the
\* divider, the labelled web answer, and citations, tools_used and errors are
\* what they are when the combining call succeeds.
C9_SynthesisFailureFallsBack ==
    (pc = "done" /\ DOMAIN tool_results.results = {"document_qa", "tavily"}
     /\ synth_env.error # "")
    => /\ ~raised
       /\ response.plan # "Error occurred"
       /\ response.answer =
            "From 10-K Document:\n" \o tool_results.results["document_qa"].answer
            \o "\n\n---\n\n"
            \o "From Web Search:\n" \o tool_results.results["tavily"].answer
       /\ \A ok \in {e \in SynthEnvs : e.error = ""} :
            /\ response.citations = _synthesize_answer("", tool_results, ok).citations
            /\ response.tools_used = _synthesize_answer("", tool_results, ok).tools_used
            /\ response.errors = _synthesize_answer("", tool_results, ok).errors

C9_Witness ==
    /\ pc = "done"
    /\ DOMAIN tool_results.results = {"document_qa", "tavily"}
    /\ synth_env.error # ""
    /\ Contains("\n\n---\n\nFrom Web Search:\n", response.answer)

\* C10: TavilySearch.search never raises: after a rate limit, a timeout, a
\* transport error or any other error it returns {answer, sources} with no
\* sources and the message of that failure kind, which no other failure kind
\* produces.
C10_SearchDegradesWithoutRaising ==
    (pc = "done" /\ Called("tavily"))
    => /\ "tavily" \in DOMAIN tool_results.results
       /\ DOMAIN tool_results.results["tavily"] = {"answer", "sources"}
       /\ FailureKind(web_env) # "none" =>
            /\ tool_results.results["tavily"].sources = <<>>
            /\ tool_results.results["tavily"].answer =
                CASE FailureKind(web_env) = "rate_limit" -> RateLimitMessage
                  [] FailureKind(web_env) = "timeout" -> TimeoutMessage
                  [] FailureKind(web_env) = "transport" -> "Web search error: " \o web_env.msg
                  [] OTHER -> "Error performing web search: " \o web_env.msg
            /\ \A e \in WebFailures :
                FailureKind(e) # FailureKind(web_env)
                    => /\ ~TavilySearch_search(e).raised
                       /\ TavilySearch_search(e).value.answer
                            # tool_results.results["tavily"].answer

C10_Witness ==
    /\ pc = "done"
    /\ Called("tavily")
    /\ FailureKind(web_env) = "other"
    /\ tool_results.results["tavily"].sources = <<>>
    /\ tool_results.results["tavily"].answer
        = "Error performing web search: payload is not a mapping"

\* the document tool returned the text the model generated
DocAnswered ==
    /\ pc = "done"
    /\ Called("document_qa")
    /\ doc_env.retrieval_error = ""
    /\ doc_env.gen_error = ""
    /\ Len(doc_env.ranking) > 0

\* the chunk indices the generated answer refers to that are valid for the
\* retrieved list
CitedIndices ==
    {int(ref) : ref \in {r \in RefSet(doc_env.text) : int(r) < Len(doc_env.ranking)}}

\* C11: every citation _extract_citations returns is built from a chunk of the
\* retrieved list, a tag whose index is not valid for that list yields no
\* citation, and the call completes without error.
C11_CitationsComeFromRetrievedChunks ==
    DocAnswered =>
        LET cits == tool_results.results["document_qa"].citations
        IN  /\ tool_results.results["document_qa"].answer = doc_env.text
            /\ \A k \in 1..Len(cits) :
                \E i \in 1..Len(doc_env.ranking) :
                    /\ ToString(i - 1) \in {ToString(int(r)) : r \in RefSet(doc_env.text)}
                    /\ cits[k].section = collection[doc_env.ranking[i]].metadata.section
                    /\ cits[k].page = collection[doc_env.ranking[i]].metadata.page
                    /\ cits[k].text \in
                        {collection[doc_env.ranking[i]].document,
                         Slice(collection[doc_env.ranking[i]].document, 200) \o "..."}
            /\ Len(cits) = Cardinality({r \in RefSet(doc_env.text) :
                                            int(r) < Len(doc_env.ranking)})

C11_Witness ==
    /\ DocAnswered
    /\ \E r \in RefSet(doc_env.text) : int(r) >= Len(doc_env.ranking)
    /\ \E r \in RefSet(doc_env.text) : int(r) < Len(doc_env.ranking)
    /\ Len(tool_results.results["document_qa"].citations) = 1

\* C12: _extract_citations returns at most one citation for each retrieved
\* chunk the answer refers to, however the reference is written, so the
\* document citations never outnumber the retrieved chunks.
C12_OneCitationPerChunk ==
    DocAnswered =>
        /\ Len(tool_results.results["document_qa"].citations) <= Cardinality(CitedIndices)
        /\ Len(tool_results.results["document_qa"].citations) <= Len(doc_env.ranking)

\* this instance ran _process_document to the end
IngestedHere == pc = "idle" /\ Len(self_chunks) > 0

\* C13: the chunks of one ingestion run are numbered 0..N-1 in document order
\* and the index holds exactly one entry per chunk, keyed "chunk_n" with
\* metadata chunk_id n and the text of chunk n.
C13_ChunkIdsContiguousAndIndexed ==
    IngestedHere =>
        /\ Len(collection) = Len(self_chunks)
        /\ \A i \in 1..Len(self_chunks) :
            /\ self_chunks[i].chunk_id = i - 1
            /\ collection[i].id = "chunk_" \o ToString(i - 1)
            /\ collection[i].metadata.chunk_id = ToString(i - 1)
            /\ collection[i].document = self_chunks[i].text
        /\ \A i, j \in 1..Len(self_chunks) :
            i < j => self_chunks[i].page <= self_chunks[j].page

C13_Witness ==
    /\ IngestedHere
    /\ Len(self_chunks) >= 6
    /\ self_chunks[1].page = 1
    /\ self_chunks[6].page = 2
    /\ collection[6].id = "chunk_5"

\* C14: once the index holds an entry, building the agent again, on a new
\* DocumentQA opened on the same store, leaves the store and the index as they
\* are and parses, chunks and embeds nothing; an existing empty collection is
\* filled when the build succeeds.
C14_InitializeIdempotent ==
    [][/\ (pc = "start" /\ Len(collection) > 0)
            => /\ pc' = "idle"
               /\ collection' = collection
               /\ store' = store
               /\ parsed_sections' = <<>>
               /\ self_chunks' = <<>>
               /\ init_error' = ""
       /\ (pc = "start" /\ collection_name \in store /\ collection = <<>> /\ pc' = "idle")
            => /\ Len(self_chunks') > 0
               /\ collection' = IndexEntries(self_chunks')]_vars

C14_Witness ==
    /\ pc = "idle"
    /\ Len(collection) > 0
    /\ self_chunks = <<>>
    /\ parsed_sections = <<>>

\* this instance ran _process_document and the embedding model answered
IngestionRan ==
    /\ pc \in {"idle", "aborted"}
    /\ Len(self_chunks) > 0 \/ init_error # ""
    /\ init_error \notin {e.embed_error : e \in EmbedEnvs} \ {""}

\* ingestion succeeded with at least one chunk and every text chunk has
\* between MinChunkWords and chunk_size words
IngestedWithinBounds ==
    /\ pc = "idle"
    /\ Len(self_chunks) >= 1
    /\ \A i \in 1..Len(self_chunks) :
        self_chunks[i].type = "text"
            => /\ Len(split(self_chunks[i].text)) >= MinChunkWords
               /\ Len(split(self_chunks[i].text)) <= chunk_size

\* C15 as stated: for every document whose extracted text exceeds 1000
\* characters, ingestion succeeds with at least one chunk and every text chunk
\* has between 50 and 500 words.
C15_LongTextIsIngested ==
    (IngestionRan /\ Len(document) > MinTextChars) => IngestedWithinBounds

\* C15 amended: for every document whose extracted text has at least 1000
\* characters and at least 100 words, and whose first 2000 words joined by
\* single spaces come to more than 500 characters, ingestion succeeds with at
\* least one chunk and every text chunk has between 50 and 500 words.
C15_LongWordyTextIsIngested ==
    (/\ IngestionRan
     /\ Len(document) >= MinTextChars
     /\ Len(split(document)) >= MinWords
     /\ Len(Join(Window(split(document), 0, section_size), " ")) > MinSectionChars)
    => IngestedWithinBounds

C15_Witness ==
    /\ IngestionRan
    /\ pc = "idle"
    /\ Len(self_chunks) = 2
    /\ Len(split(self_chunks[1].text)) = 450
    /\ Len(split(self_chunks[2].text)) = MinChunkWords

\* the constructor raised with message m and left the store as it was
Rejected(m) ==
    /\ pc' = "aborted"
    /\ init_error' = m
    /\ store' = store
    /\ collection' = collection
    /\ self_chunks' = <<>>

\* C16: ingestion raises, creates no collection and adds no entry when the
\* text is below the character threshold, when it has too few words, when no
\* section is produced and when no chunk is produced; the error leaves the
\* constructor, and the run ends without another attempt.
C16_RejectedDocumentLeavesStoreUntouched ==
    [][/\ (pc = "start" /\ ~(collection_name \in store /\ Len(collection) > 0))
            => /\ Len(document) < MinTextChars
                    => Rejected("Document contains insufficient text")
               /\ (Len(document) >= MinTextChars /\ Len(split(document)) < MinWords)
                    => Rejected("Document contains too few words")
               /\ (/\ Len(document) >= MinTextChars
                   /\ Len(split(document)) >= MinWords
                   /\ \A k \in 1..Len(Range(Len(split(document)), section_size)) :
                        Len(Join(Window(split(document),
                                        Range(Len(split(document)), section_size)[k],
                                        section_size), " ")) <= MinSectionChars)
                    => Rejected("Failed to create any sections from document")
       /\ \A eenv \in EmbedEnvs :
            LET st == [store |-> store, collection |-> collection,
                       chunks |-> <<>>, sections |-> <<>>]
            IN  /\ store_chunks(st, <<>>, eenv).raised
                /\ store_chunks(st, <<>>, eenv).class = "ValueError"
                /\ store_chunks(st, <<>>, eenv).store = store
                /\ store_chunks(st, <<>>, eenv).collection = collection
       /\ pc = "aborted"
            => /\ pc' = "start"
               /\ store' = store
               /\ collection' = collection]_vars

C16_Witness ==
    /\ pc = "aborted"
    /\ init_error = "Failed to create any sections from document"
    /\ store = {}
    /\ collection = <<>>

\* C17: once the agent is built, no answer_query call, whatever its routing,
\* tool outcomes or errors, adds, removes or changes an entry of the index.
C17_IndexReadOnlyAtQueryTime ==
    [][(pc \in {"idle", "routed", "done"})
        => (collection' = collection /\ store' = store)]_vars

C17_Witness ==
    /\ pc = "done"
    /\ Hybrid
    /\ DocFailed
    /\ WebFailed
    /\ Len(collection) = MaxChunks

\* C18: the plan returned for a query names the 10-K and web search exactly
\* when the router selected both tools, web search alone exactly when it
\* selected the web tool alone, and the 10-K alone exactly when it selected the
\* document tool alone.
C18_PlanDescribesRoute ==
    pc = "done" =>
        /\ response.plan = PlanBoth <=> tools_to_use = <<"document_qa", "tavily">>
        /\ response.plan = PlanWeb <=> tools_to_use = <<"tavily">>
        /\ response.plan = PlanDocument <=> tools_to_use = <<"document_qa">>

\* C19: when a cross-reference was detected at ingestion in the text of a
\* chunk and that chunk is retrieved and cited by the answer, the citation of
\* that chunk lists the cross-reference.
C19_CitationCarriesCrossReferences ==
    (DocAnswered /\ Len(self_chunks) = Len(collection)) =>
        \A ref \in {r \in RefSet(doc_env.text) : int(r) < Len(doc_env.ranking)} :
            LET origin == self_chunks[doc_env.ranking[int(ref) + 1]]
                cits == tool_results.results["document_qa"].citations
            IN  \A x \in 1..Len(origin.cross_references) :
                    \E k \in 1..Len(cits) :
                        /\ cits[k].section = origin.section
                        /\ cits[k].text \in {origin.text, Slice(origin.text, 200) \o "..."}
                        /\ \E y \in 1..Len(cits[k].cross_references) :
                            cits[k].cross_references[y] = origin.cross_references[x]

\* C20: the sections cover the extracted text in order: every word belongs to
\* exactly one section, section k is the k-th window of at most 2000 words,
\* and the page numbers are 1, 2, 3, ...
C20_SectionsCoverDocument ==
    Len(parsed_sections) > 0 =>
        /\ Join([k \in 1..Len(parsed_sections) |-> parsed_sections[k].content], " ")
            = Join(split(document), " ")
        /\ \A k \in 1..Len(parsed_sections) :
            /\ parsed_sections[k].content
                = Join(Window(split(document), (k - 1) * section_size, section_size), " ")
            /\ parsed_sections[k].page = k

\* the tables _extract_tables renders from the file: readable and long enough
ExtractedTables == _extract_tables(table_elements)

\* C21: after ingesting a filing that holds a table whose rendered text
\* reaches the minimum length, the sections hold a table-type section for it,
\* named by its bucket, and the chunks and the index hold exactly one
\* table-type chunk with the table's whole text.
C21_TableBecomesOneTableChunk ==
    IngestedHere =>
        \A k \in 1..Len(ExtractedTables) :
            LET table == ExtractedTables[k]
                same == {j \in 1..Len(ExtractedTables) : ExtractedTables[j] = table}
            IN  /\ \E n \in 1..Len(parsed_sections) :
                    /\ parsed_sections[n].type = "table"
                    /\ parsed_sections[n].name = table.name
                    /\ parsed_sections[n].content = table.content
                /\ Cardinality({i \in 1..Len(self_chunks) :
                        /\ self_chunks[i].type = "table"
                        /\ self_chunks[i].section = table.name
                        /\ self_chunks[i].text = table.content}) = Cardinality(same)
                /\ Cardinality({i \in 1..Len(collection) :
                        /\ collection[i].metadata.type = "table"
                        /\ collection[i].metadata.section = table.name
                        /\ collection[i].document = table.content}) = Cardinality(same)

\* a filing with an income statement table was ingested to the end
C21_TableFilingIngested ==
    /\ IngestedHere
    /\ Len(ExtractedTables) = 1
    /\ ExtractedTables[1].name = "Financial Statements - Income Statement"
    /\ Len(collection) = Len(self_chunks)

\* no section, chunk or index entry of any run is of type table
C21_NoTableEverIndexed ==
    /\ \A n \in 1..Len(parsed_sections) : parsed_sections[n].type = "text"
    /\ \A i \in 1..Len(self_chunks) : self_chunks[i].type = "text"
    /\ \A i \in 1..Len(collection) : collection[i].metadata.type = "text"

\* the chunks of this run cut from section n, in order
ChunksOf(n) ==
    SelectSeq(self_chunks, LAMBDA chunk : chunk.section = parsed_sections[n].name)

\* C22: chunk j of a section of at least 50 words is the window of at most
\* 500 words that starts at word offset 400 * (j - 1); only trailing windows
\* of fewer than 50 words are missing, and every word of the section lies in
\* a kept chunk. A section of fewer than 50 words has no chunk.
C22_ChunkingLosesNoText ==
    IngestedHere =>
        \A n \in 1..Len(parsed_sections) :
            LET words == split(parsed_sections[n].content)
                own == ChunksOf(n)
            IN  IF Len(words) < 50 THEN Len(own) = 0
                ELSE
                    /\ Len(own) >= 1
                    /\ \A j \in 1..Len(own) :
                        /\ own[j].text = Join(Window(words, 400 * (j - 1), 500), " ")
                        /\ Len(split(own[j].text)) <= 500
                    /\ \A p \in 1..Len(words) :
                        \E j \in 1..Len(own) : 400 * (j - 1) < p /\ p <= 400 * (j - 1) + 500
                    /\ \A j \in (Len(own) + 1)..Len(words) :
                        400 * (j - 1) < Len(words) => Len(words) - 400 * (j - 1) < 50

\* a section of 449 words was chunked: the window at offset 400 holds 49 words
C22_Witness ==
    /\ IngestedHere
    /\ Len(parsed_sections) = 1
    /\ Len(split(parsed_sections[1].content)) = 449
    /\ Len(ChunksOf(1)) = 1
    /\ Len(split(self_chunks[1].text)) = 449

\* a last section of 40 words was chunked and left no chunk
C22_ShortSectionReached ==
    /\ IngestedHere
    /\ Len(parsed_sections) = 2
    /\ Len(split(parsed_sections[2].content)) = 40
    /\ Len(ChunksOf(2)) = 0

====
